---- MODULE Spec2Model ----
(***************************************************************************)
(* LocalStorageClient / LocalStorageTable: a table of records kept as one  *)
(* JSON text in one localStorage slot (src/index.ts, src/unnamed/part_000).*)
(*                                                                         *)
(* A record is a function from the field names it owns to values.  Field   *)
(* values are abstracted to small integers; Undefined stands for the       *)
(* JavaScript value undefined (a property that is present with the value   *)
(* undefined, or the result of reading a property that is absent).         *)
(* A JSON value / JSON text is [kind, rows]: kind "array" carries the rows,*)
(* the other kinds are the contents a slot can hold that are not arrays.   *)
(*                                                                         *)
(* Spec is the Table Store alone; SpecPull is fetchData with its passes in  *)
(* flight, the one-shot requests and Table Store calls split at their      *)
(* read; SpecPush is syncPost / syncUpdate likewise.                       *)
(***************************************************************************)
EXTENDS Integers, Sequences, FiniteSets, TLC

\* ---------------------------------------------------------------- bounds
MaxRows == 3
MaxClock == 2
MaxPage == 3
\* pull passes under way at once, push passes under way at once, and the
\* rows of the table while the Sync Driver runs
MaxPulls == 2
MaxPushes == 1
MaxSyncRows == 2

\* ------------------------------------------------------- program values
\* select's default limit (page = 1, limit = 10)
DefaultLimit == 10
DefaultPage == 1
\* the value undefined
Undefined == -1
\* enumeration marker: the field is not a property of the object
Absent == -2
\* two name strings ("a", "b"), one value number, one caller-chosen id
NameA == 1
NameB == 2
Value1 == 1
UserId == 7

Fields == {"id", "name", "value"}

Pick(f, i, n, v) == IF f = "id" THEN i ELSE IF f = "name" THEN n ELSE v

\* the object literal {id: i, name: n, value: v} without the Absent fields
MkRecord(i, n, v) ==
  [f \in {g \in Fields : Pick(g, i, n, v) # Absent} |-> Pick(f, i, n, v)]

\* item[key]: reading a property that is absent yields undefined
Get(item, key) == IF key \in DOMAIN item THEN item[key] ELSE Undefined

\* ------------------------------------------------------------ JSON
Array(rows) == [kind |-> "array", rows |-> rows]
Missing == [kind |-> "missing", rows |-> << >>]
Garbage == [kind |-> "garbage", rows |-> << >>]
JsonNull == [kind |-> "null", rows |-> << >>]
JsonObject == [kind |-> "object", rows |-> << >>]

\* JSON.stringify of one object: properties whose value is undefined are
\* left out of the text
stringifyRecord(item) ==
  [f \in {g \in DOMAIN item : item[g] # Undefined} |-> item[f]]

\* JSON.stringify(data)
JSONstringify(data) ==
  [kind |-> data.kind,
   rows |-> [i \in 1..Len(data.rows) |-> stringifyRecord(data.rows[i])]]

\* JSON.parse(text) for a text that parses
JSONparse(text) == [kind |-> text.kind, rows |-> text.rows]

\* localStorage.getItem(tableName) || '[]'
getItem(s) == IF s.kind = "missing" THEN JSONstringify(Array(<< >>)) ELSE s

\* _getTable: the parsed slot; [] when JSON.parse throws
_getTable(s) ==
  IF getItem(s).kind = "garbage" THEN Array(<< >>) ELSE JSONparse(getItem(s))

\* _setTable: localStorage.setItem(tableName, JSON.stringify(data)); when
\* setItem throws the exception is caught and the slot keeps its content
_setTable(s, data, ok) == IF ok THEN JSONstringify(data) ELSE s

\* ------------------------------------------------------------ queries
\* mutant: some instead of every
Matches_some(item, query) == \E key \in DOMAIN query : Get(item, key) = query[key]

\* Object.keys(query).every(key => item[key] === query[key])
Matches(item, query) == \A key \in DOMAIN query : Get(item, key) = query[key]

\* table.filter(item => Matches(item, query) = keep)
RECURSIVE filter(_, _, _)
filter(rows, query, keep) ==
  IF rows = << >> THEN << >>
  ELSE LET rest == filter(Tail(rows), query, keep)
       IN IF Matches(Head(rows), query) = keep
          THEN << Head(rows) >> \o rest ELSE rest

Max(a, b) == IF a > b THEN a ELSE b
Min(a, b) == IF a < b THEN a ELSE b

\* mutant: negative indexes are clamped to 0
slice_clampsNegative(rows, start, end) ==
  LET len == Len(rows)
      k == Min(Max(start, 0), len)
      final == Min(Max(end, 0), len)
  IN IF k < final THEN SubSeq(rows, k + 1, final) ELSE << >>

\* Array.prototype.slice(start, end): negative indexes count from the end
slice(rows, start, end) ==
  LET len == Len(rows)
      k == IF start < 0 THEN Max(len + start, 0) ELSE Min(start, len)
      final == IF end < 0 THEN Max(len + end, 0) ELSE Min(end, len)
  IN IF k < final THEN SubSeq(rows, k + 1, final) ELSE << >>

\* mutant: { ...updates, ...item }
merge_itemWins(item, updates) ==
  [f \in DOMAIN item \cup DOMAIN updates |->
     IF f \in DOMAIN item THEN item[f] ELSE updates[f]]

\* { ...item, ...updates }
merge(item, updates) ==
  [f \in DOMAIN item \cup DOMAIN updates |->
     IF f \in DOMAIN updates THEN updates[f] ELSE item[f]]

\* ------------------------------------------------------------ outcomes
\* what one call leaves behind: the slot, whether it threw, what it returned
Outcome(s, threw, kind, rows, n) ==
  [slot |-> s, threw |-> threw, kind |-> kind, rows |-> rows, n |-> n]

\* a TypeError escaping the method: nothing is written, nothing is returned
Throws(s) == Outcome(s, TRUE, "none", << >>, 0)

\* item.id = Date.now()
assignId(item, t) ==
  [f \in DOMAIN item \cup {"id"} |-> IF f = "id" THEN t ELSE item[f]]

\* mutant: table.unshift(item)
insert_unshift(s, item, t, ok) ==
  LET table == _getTable(s)
      stamped == assignId(item, t)
  IN IF table.kind # "array" THEN Throws(s)
     ELSE Outcome(_setTable(s, Array(<< stamped >> \o table.rows), ok),
                  FALSE, "item", << stamped >>, 0)

insert(s, item, t, ok) ==
  LET table == _getTable(s)
      stamped == assignId(item, t)
  IN IF table.kind # "array" THEN Throws(s)
     ELSE Outcome(_setTable(s, Array(Append(table.rows, stamped)), ok),
                  FALSE, "item", << stamped >>, 0)

\* mutant: startIndex = page * limit
select_pageFromZero(s, query, page, limit) ==
  LET table == _getTable(s)
      filtered == filter(table.rows, query, TRUE)
      startIndex == page * limit
  IN IF table.kind # "array" THEN Throws(s)
     ELSE Outcome(s, FALSE, "rows",
                  slice(filtered, startIndex, startIndex + limit), 0)

select(s, query, page, limit) ==
  LET table == _getTable(s)
      filtered == filter(table.rows, query, TRUE)
      startIndex == (page - 1) * limit
  IN IF table.kind # "array" THEN Throws(s)
     ELSE Outcome(s, FALSE, "rows",
                  slice(filtered, startIndex, startIndex + limit), 0)

update(s, query, updates, ok) ==
  LET table == _getTable(s)
      updatedTable == [i \in 1..Len(table.rows) |->
                         IF Matches(table.rows[i], query)
                         THEN merge(table.rows[i], updates)
                         ELSE table.rows[i]]
  IN IF table.kind # "array" THEN Throws(s)
     ELSE select(_setTable(s, Array(updatedTable), ok), query,
                 DefaultPage, DefaultLimit)

\* mutant: the filter keeps the matching records
delete_keepsMatching(s, query, ok) ==
  LET table == _getTable(s)
      newTable == filter(table.rows, query, TRUE)
  IN IF table.kind # "array" THEN Throws(s)
     ELSE Outcome(_setTable(s, Array(newTable), ok), FALSE, "count", << >>,
                  Len(table.rows) - Len(newTable))

delete(s, query, ok) ==
  LET table == _getTable(s)
      newTable == filter(table.rows, query, FALSE)
  IN IF table.kind # "array" THEN Throws(s)
     ELSE Outcome(_setTable(s, Array(newTable), ok), FALSE, "count", << >>,
                  Len(table.rows) - Len(newTable))

\* mutant: writes the table back as it was read
clear_writesBack(s, ok) ==
  Outcome(_setTable(s, _getTable(s), ok), FALSE, "void", << >>, 0)

clear(s, ok) == Outcome(_setTable(s, Array(<< >>), ok), FALSE, "void", << >>, 0)

\* what fetch(apiUrl) settles with: the promise is rejected (unreachable
\* host), or it resolves with a response whose status is OK or an HTTP error
\* and whose body is a text
Response(status, body) == [status |-> status, body |-> body]
Rejected == Response("rejected", Garbage)
NoResponse == Response("none", Garbage)

\* await fetch(...) and await response.json() both complete without throwing:
\* response.ok is never looked at
Parses(response) ==
  response.status \in {"ok", "error"} /\ response.body.kind # "garbage"

\* mutant: the fetched records are appended to the table
fetchAndStoreData_appends(s, response, ok) ==
  IF ~Parses(response) THEN Outcome(s, FALSE, "void", << >>, 0)
  ELSE Outcome(_setTable(s, [kind |-> JSONparse(response.body).kind,
                             rows |-> _getTable(s).rows
                                        \o JSONparse(response.body).rows], ok),
               FALSE, "void", << >>, 0)

\* one pull pass of fetchData: fetch, response.json(), _setTable(data); a
\* rejected fetch or a body that does not parse is caught and logged
fetchAndStoreData(s, response, ok) ==
  IF ~Parses(response) THEN Outcome(s, FALSE, "void", << >>, 0)
  ELSE Outcome(_setTable(s, JSONparse(response.body), ok),
               FALSE, "void", << >>, 0)

\* a request that never completes: the promise of fetch stays pending
NeverSettles == Response("never", Garbage)

\* the promise an async method returns: pending, resolved with a value, or
\* rejected
Settled(state, value) == [state |-> state, value |-> value]

\* post: await fetch(apiUrl, {method: 'POST', ...}) inside try/catch
post(response) ==
  IF response = NeverSettles THEN Settled("pending", Missing)
  ELSE Settled("resolved", Missing)

\* updateData: await fetch(apiUrl, {method: 'PUT', ...}) inside try/catch
updateData(response) ==
  IF response = NeverSettles THEN Settled("pending", Missing)
  ELSE Settled("resolved", Missing)

\* deleteData: await fetch(`${apiUrl}/${id}`, {method: 'DELETE', ...}) inside
\* try/catch
deleteData(response) ==
  IF response = NeverSettles THEN Settled("pending", Missing)
  ELSE Settled("resolved", Missing)

\* get: return await response.json(); the catch returns []
get(response) ==
  IF response = NeverSettles THEN Settled("pending", Missing)
  ELSE IF Parses(response)
       THEN Settled("resolved", JSONparse(response.body))
       ELSE Settled("resolved", Array(<< >>))

\* one pull pass: the request is in flight ("fetching"), will never complete
\* ("hung"), or the pass has ended ("done"); first marks the pass that
\* fetchData awaits, wrote that its _setTable set the slot, overtaken that a
\* pass started after it has already set the slot
PullPassOf(first) ==
  [driver |-> "fetchData", st |-> "fetching", first |-> first,
   wrote |-> FALSE, overtaken |-> FALSE]

\* the pass when its request settles with response
pullStep(pass, response, ok) ==
  IF response = NeverSettles THEN [pass EXCEPT !.st = "hung"]
  ELSE [pass EXCEPT !.st = "done", !.wrote = (ok /\ Parses(response))]

\* syncPost sends POST, syncUpdate sends PUT
Method(driver) == IF driver = "syncPost" THEN "POST" ELSE "PUT"

\* fetch(apiUrl, {method, headers, body: JSON.stringify(item)})
Request(method, item) == [method |-> method, body |-> stringifyRecord(item)]

\* for (const item of table): null, an object or a number is not iterable
Iterable(table) == table.kind = "array"

\* one push pass: the table it read, the requests it has issued, how many of
\* them have settled, whether one of them was rejected, and where it stands:
\* "sending", "hung", "done", or "threw" (the for...of threw a TypeError)
PushPass(driver, first, table, sent, settled, failed, st) ==
  [driver |-> driver, first |-> first, table |-> table, sent |-> sent,
   settled |-> settled, failed |-> failed, st |-> st]

\* sync(): reads the table and runs up to its first await
sync(s, driver, first) ==
  LET table == _getTable(s)
  IN IF ~Iterable(table)
     THEN PushPass(driver, first, << >>, << >>, 0, FALSE, "threw")
     ELSE IF table.rows = << >>
          THEN PushPass(driver, first, << >>, << >>, 0, FALSE, "done")
          ELSE PushPass(driver, first, table.rows,
                        << Request(Method(driver), table.rows[1]) >>,
                        0, FALSE, "sending")

\* mutant: a rejected request ends the pass
syncStep_stopsOnError(pass, response) ==
  IF response = NeverSettles THEN [pass EXCEPT !.st = "hung"]
  ELSE IF response = Rejected
       THEN [pass EXCEPT !.settled = pass.settled + 1, !.failed = TRUE,
                         !.st = "done"]
       ELSE IF pass.settled + 1 < Len(pass.table)
            THEN [pass EXCEPT
                    !.settled = pass.settled + 1,
                    !.sent = Append(pass.sent,
                               Request(Method(pass.driver),
                                       pass.table[pass.settled + 2]))]
            ELSE [pass EXCEPT !.settled = pass.settled + 1, !.st = "done"]

\* the pass when the request in flight settles with response: a rejected
\* fetch is caught and logged inside the loop, and the loop goes on to the
\* next item of the table it read
syncStep(pass, response) ==
  IF response = NeverSettles THEN [pass EXCEPT !.st = "hung"]
  ELSE IF pass.settled + 1 < Len(pass.table)
       THEN [pass EXCEPT
               !.settled = pass.settled + 1,
               !.failed = (pass.failed \/ response = Rejected),
               !.sent = Append(pass.sent,
                          Request(Method(pass.driver),
                                  pass.table[pass.settled + 2]))]
       ELSE [pass EXCEPT !.settled = pass.settled + 1,
                         !.failed = (pass.failed \/ response = Rejected),
                         !.st = "done"]

\* the promise of fetchData / syncPost / syncUpdate once its first pass has
\* come to st: await sync() rethrows what the pass threw; otherwise
\* setInterval runs and the method returns
firstPassPromise(st) ==
  CASE st = "done" -> "resolved"
    [] st = "threw" -> "rejected"
    [] OTHER -> "pending"


\* ------------------------------------------------------------ inputs
NoItem == MkRecord(Absent, Absent, Absent)

\* the items callers insert, some already carrying an id
Items == {MkRecord(i, n, v) : i \in {Absent, UserId}, n \in {NameA, NameB},
                              v \in {Absent, Value1}}

\* Query<T> is Partial<...>: a named field may carry the value undefined
Queries == {MkRecord(Absent, n, v) : n \in {Absent, NameA},
                                     v \in {Absent, Value1, Undefined}}

\* Partial<T>
Updates == {MkRecord(Absent, Absent, Absent), MkRecord(Absent, NameB, Absent),
            MkRecord(Absent, Absent, Value1), MkRecord(Absent, Absent, Undefined)}

Pages == 1..MaxPage
Limits == {2, DefaultLimit}

\* what a GET can bring back: a rejected fetch, an OK response (with a body
\* that may not parse or may not be an array) or an HTTP error response
Responses ==
  {Rejected} \cup
  {Response("ok", b) : b \in {Garbage, Array(<< >>), JsonObject,
                              Array(<< MkRecord(1, NameA, Absent) >>)}} \cup
  {Response("error", b) : b \in {Garbage, JsonObject}}

\* select is called with any page and limit: the regular ones, and some
\* that are zero or negative
Unvalidated ==
  {<< 1, -1 >>, << 1, -2 >>, << 1, 0 >>, << 0, 2 >>, << 0, -1 >>,
   << -1, 1 >>, << -1, -1 >>, << 2, -1 >>}

SelectCalls ==
  {<< q, p, 2 >> : q \in {NoItem, MkRecord(Absent, NameA, Absent)},
                   p \in Pages} \cup
  {<< q, DefaultPage, DefaultLimit >> : q \in Queries} \cup
  {<< NoItem, pl[1], pl[2] >> : pl \in Unvalidated}

\* what the slot may hold when the client is constructed
InitSlots ==
  {Missing, Garbage, JsonNull, JsonObject,
   Array(<< MkRecord(1, NameA, Absent) >>)}

\* ------------------------------------------------------------ state
VARIABLES
  slot,         \* localStorage[tableName]
  now,          \* Date.now()
  op,           \* the last call
  arg,          \* its arguments
  pre,          \* the slot it found
  result,       \* what it threw or returned
  inserted,     \* the items returned by insert since the table was empty
  onlyInserts,  \* the table was empty and only successful inserts followed
  cleared,      \* clear() wrote, and no insert or pull pass has written since
  job,          \* the Table Store call between its _getTable and its _setTable
  pulls,        \* the pull passes of fetchData under way, in start order
  pushes,       \* the push passes of syncPost / syncUpdate under way
  ended,        \* the pass that has just ended
  promise,      \* the promise returned by fetchData, syncPost, syncUpdate
  timers,       \* the methods whose setInterval has been called
  queued,       \* the continuations of await fetchAndStoreData() / await
                \* sync() in the microtask queue, oldest first
  oneshot       \* the call of post / updateData / deleteData / get under way

syncVars ==
  << job, pulls, pushes, ended, promise, timers, queued, oneshot >>

vars == << slot, now, op, arg, pre, result, inserted, onlyInserts, cleared,
           job, pulls, pushes, ended, promise, timers, queued, oneshot >>

Drivers == {"fetchData", "syncPost", "syncUpdate"}

\* no Table Store call is under way
NoJob == [op |-> "none", read |-> Missing, item |-> NoItem]

\* no pass has just ended
NoPass == [st |-> "none"]

\* no one-shot request has been made
NoRequest == [name |-> "none", state |-> "none", value |-> Missing]

Args(item, query, updates, page, limit, ok, response) ==
  [item |-> item, query |-> query, updates |-> updates, page |-> page,
   limit |-> limit, ok |-> ok, response |-> response]

NoArgs ==
  Args(NoItem, NoItem, NoItem, DefaultPage, DefaultLimit, TRUE, NoResponse)

\* no call has returned anything
NoResult == [threw |-> FALSE, kind |-> "none", rows |-> << >>, n |-> 0]

Returned(out) ==
  [threw |-> out.threw, kind |-> out.kind, rows |-> out.rows, n |-> out.n]

\* the slot reads as a table with no records
EmptyTable(s) == _getTable(s) = Array(<< >>)

\* the slot reads as a table (a missing or unparsable slot reads as [])
IsTable(s) == _getTable(s).kind = "array"

Init ==
  /\ slot \in InitSlots
  /\ now = 1
  /\ op = "none"
  /\ arg = NoArgs
  /\ pre = slot
  /\ result = NoResult
  /\ inserted = << >>
  /\ onlyInserts = EmptyTable(slot)
  /\ cleared = FALSE
  /\ job = NoJob
  /\ pulls = << >>
  /\ pushes = << >>
  /\ ended = NoPass
  /\ promise = [d \in Drivers |-> "none"]
  /\ timers = {}
  /\ queued = << >>
  /\ oneshot = NoRequest

\* the clock advances between calls
Tick ==
  /\ op = "none"
  /\ now < MaxClock
  /\ now' = now + 1
  /\ UNCHANGED << slot, op, arg, pre, result, inserted, onlyInserts, cleared >>
  /\ UNCHANGED syncVars

Insert ==
  \E item \in Items, ok \in BOOLEAN :
    LET out == insert(slot, item, now, ok)
        wrote == ok /\ ~out.threw
    IN /\ op = "none"
       /\ Len(_getTable(slot).rows) < MaxRows
       /\ slot' = out.slot
       /\ op' = "insert"
       /\ arg' = Args(item, NoItem, NoItem, DefaultPage, DefaultLimit, ok, NoResponse)
       /\ pre' = slot
       /\ result' = Returned(out)
       /\ onlyInserts' = (onlyInserts /\ wrote)
       /\ inserted' = IF onlyInserts /\ wrote
                      THEN inserted \o out.rows ELSE << >>
       /\ cleared' = (cleared /\ ~wrote)
       /\ UNCHANGED now
       /\ UNCHANGED syncVars

Select ==
  \E call \in SelectCalls :
    LET query == call[1]
        page == call[2]
        limit == call[3]
        out == select(slot, query, page, limit)
    IN /\ op = "none"
       /\ slot' = out.slot
       /\ op' = "select"
       /\ arg' = Args(NoItem, query, NoItem, page, limit, TRUE, NoResponse)
       /\ pre' = slot
       /\ result' = Returned(out)
       /\ UNCHANGED << now, inserted, onlyInserts, cleared >>
       /\ UNCHANGED syncVars

Update ==
  \E query \in Queries, updates \in Updates, ok \in BOOLEAN :
    LET out == update(slot, query, updates, ok)
    IN /\ op = "none"
       /\ slot' = out.slot
       /\ op' = "update"
       /\ arg' = Args(NoItem, query, updates, DefaultPage, DefaultLimit, ok, NoResponse)
       /\ pre' = slot
       /\ result' = Returned(out)
       /\ onlyInserts' = EmptyTable(out.slot)
       /\ inserted' = << >>
       /\ UNCHANGED << now, cleared >>
       /\ UNCHANGED syncVars

Delete ==
  \E query \in Queries, ok \in BOOLEAN :
    LET out == delete(slot, query, ok)
    IN /\ op = "none"
       /\ slot' = out.slot
       /\ op' = "delete"
       /\ arg' = Args(NoItem, query, NoItem, DefaultPage, DefaultLimit, ok, NoResponse)
       /\ pre' = slot
       /\ result' = Returned(out)
       /\ onlyInserts' = EmptyTable(out.slot)
       /\ inserted' = << >>
       /\ UNCHANGED << now, cleared >>
       /\ UNCHANGED syncVars

Clear ==
  \E ok \in BOOLEAN :
    LET out == clear(slot, ok)
    IN /\ op = "none"
       /\ slot' = out.slot
       /\ op' = "clear"
       /\ arg' = Args(NoItem, NoItem, NoItem, DefaultPage, DefaultLimit, ok, NoResponse)
       /\ pre' = slot
       /\ result' = Returned(out)
       /\ onlyInserts' = EmptyTable(out.slot)
       /\ inserted' = << >>
       /\ cleared' = (ok \/ cleared)
       /\ UNCHANGED now
       /\ UNCHANGED syncVars

\* the call has returned and its caller has taken the result: the client is
\* idle until the next call
Return ==
  /\ op # "none"
  /\ op' = "none"
  /\ arg' = NoArgs
  /\ pre' = slot
  /\ result' = NoResult
  /\ UNCHANGED << slot, now, inserted, onlyInserts, cleared >>
  /\ UNCHANGED syncVars

Next ==
  Tick \/ Insert \/ Select \/ Update \/ Delete \/ Clear \/ Return

Spec == Init /\ [][Next]_vars

\* ------------------------------------------------------------ Sync Driver
\* the one-shot requests
OneShots == {"post", "updateData", "deleteData", "get"}

\* what a request can come to: a response, a rejection, or nothing ever
Outcomes == Responses \cup {NeverSettles}

\* what a request of a push pass can come to (the pass does not read the
\* response)
Acks == {Rejected, Response("ok", Garbage), Response("error", Garbage),
         NeverSettles}

\* the Table Store calls made while the Sync Driver runs
TableCalls ==
  {[op |-> "insert", item |-> MkRecord(Absent, NameB, Absent)],
   [op |-> "delete", item |-> NoItem]}

\* insert, select, update, delete and clear are synchronous: nothing else
\* runs between the _getTable and the _setTable of a call
Busy_never == FALSE

Busy == job.op # "none"

\* the event loop is free to run the next callback
Ready ==
  /\ op = "none" /\ ended = NoPass /\ ~Busy
  /\ oneshot.state \in {"none", "pending"}

\* the microtask queue is empty: the event loop takes the next task (a timer
\* that fired, a response that arrived)
Drained == queued = << >>

\* the continuation of await fetchAndStoreData() / await sync() in driver,
\* the awaited pass having come to st
Continuation(driver, st) == [driver |-> driver, st |-> st]

oneShot(name, response) ==
  CASE name = "post" -> post(response)
    [] name = "updateData" -> updateData(response)
    [] name = "deleteData" -> deleteData(response)
    [] OTHER -> get(response)

\* the Table Store call of job, on the table that the call read
tableCall(j, t, ok) ==
  IF j.op = "insert" THEN insert(j.read, j.item, t, ok)
  ELSE delete(j.read, j.item, ok)

\* the passes under way other than the k-th
Without(passes, k) ==
  SubSeq(passes, 1, k - 1) \o SubSeq(passes, k + 1, Len(passes))

\* the passes under way once the k-th has come to pass: a pass that ended is
\* no longer under way
Replace(passes, k, pass) ==
  IF pass.st \in {"done", "threw"} THEN Without(passes, k)
  ELSE [passes EXCEPT ![k] = pass]

\* the pass that has just ended, if pass has
Ended(pass) == IF pass.st \in {"done", "threw"} THEN pass ELSE NoPass

\* the k-th pull pass has set the slot: the passes started before it that
\* are still under way have been overtaken
Overtake(passes, k) ==
  [j \in 1..Len(passes) |->
     IF j < k THEN [passes[j] EXCEPT !.overtaken = TRUE] ELSE passes[j]]

\* fetchData(...) is called: the first pull pass starts and is awaited
FetchData ==
  /\ Ready
  /\ promise["fetchData"] = "none"
  /\ Len(pulls) < MaxPulls
  /\ pulls' = Append(pulls, PullPassOf(TRUE))
  /\ promise' = [promise EXCEPT !["fetchData"] = "pending"]
  /\ UNCHANGED << slot, now, op, arg, pre, result, inserted, onlyInserts,
                  cleared, job, pushes, ended, timers, queued, oneshot >>

\* the timer of fetchData fires: a pull pass starts, whatever the earlier
\* passes are doing
PullTimer ==
  /\ Ready /\ Drained
  /\ "fetchData" \in timers
  /\ Len(pulls) < MaxPulls
  /\ pulls' = Append(pulls, PullPassOf(FALSE))
  /\ UNCHANGED << slot, now, op, arg, pre, result, inserted, onlyInserts,
                  cleared, job, pushes, ended, promise, timers, queued,
                  oneshot >>

\* the request of a pull pass settles (or is found never to): the pass
\* stores the body and returns; when it is the first pass, the continuation
\* of await fetchAndStoreData() is queued
PullSettle ==
  \E k \in 1..Len(pulls), response \in Outcomes, ok \in BOOLEAN :
    LET pass == pullStep(pulls[k], response, ok)
        out == fetchAndStoreData(slot, response, ok)
    IN /\ Ready /\ Drained
       /\ pulls[k].st = "fetching"
       /\ pulls' = Replace(IF pass.wrote THEN Overtake(pulls, k) ELSE pulls,
                           k, pass)
       /\ ended' = Ended(pass)
       /\ slot' = out.slot
       /\ queued' = IF pass.first /\ pass.st = "done"
                    THEN Append(queued, Continuation("fetchData", pass.st))
                    ELSE queued
       /\ IF pass.st = "done"
          THEN /\ op' = "pull"
               /\ arg' = Args(NoItem, NoItem, NoItem, DefaultPage,
                             DefaultLimit, ok, response)
               /\ pre' = slot
               /\ result' = Returned(out)
          ELSE UNCHANGED << op, arg, pre, result >>
       /\ UNCHANGED << now, inserted, onlyInserts, cleared, job, pushes,
                       promise, timers, oneshot >>

\* syncPost(...) or syncUpdate(...) is called: the first push pass starts
\* and is awaited; when it has returned or thrown already (no record, or a
\* table that is not iterable) the continuation of await sync() is queued
SyncCall ==
  \E driver \in {"syncPost", "syncUpdate"} :
    LET pass == sync(slot, driver, TRUE)
    IN /\ Ready
       /\ promise[driver] = "none"
       /\ Len(pushes) < MaxPushes
       /\ pushes' = Replace(Append(pushes, pass), Len(pushes) + 1, pass)
       /\ ended' = Ended(pass)
       /\ promise' = [promise EXCEPT ![driver] = "pending"]
       /\ queued' = IF pass.st \in {"done", "threw"}
                    THEN Append(queued, Continuation(driver, pass.st))
                    ELSE queued
       /\ UNCHANGED << slot, now, op, arg, pre, result, inserted,
                       onlyInserts, cleared, job, pulls, timers, oneshot >>

\* the timer of syncPost or syncUpdate fires: a push pass starts
PushTimer ==
  \E driver \in timers \ {"fetchData"} :
    LET pass == sync(slot, driver, FALSE)
    IN /\ Ready /\ Drained
       /\ Len(pushes) < MaxPushes
       /\ pushes' = Replace(Append(pushes, pass), Len(pushes) + 1, pass)
       /\ ended' = Ended(pass)
       /\ UNCHANGED << slot, now, op, arg, pre, result, inserted,
                       onlyInserts, cleared, job, pulls, promise, timers,
                       queued, oneshot >>

\* the request in flight of a push pass settles (or is found never to); when
\* the first pass returns, the continuation of await sync() is queued
PushSettle ==
  \E k \in 1..Len(pushes), response \in Acks :
    LET pass == syncStep(pushes[k], response)
    IN /\ Ready /\ Drained
       /\ pushes[k].st = "sending"
       /\ pushes' = Replace(pushes, k, pass)
       /\ ended' = Ended(pass)
       /\ queued' = IF pass.first /\ pass.st = "done"
                    THEN Append(queued, Continuation(pass.driver, pass.st))
                    ELSE queued
       /\ UNCHANGED << slot, now, op, arg, pre, result, inserted,
                       onlyInserts, cleared, job, pulls, promise, timers,
                       oneshot >>

\* fetchData / syncPost / syncUpdate resumes after its await: it rethrows
\* what the first pass threw, or calls setInterval and returns
Resume ==
  /\ Ready
  /\ queued # << >>
  /\ promise' = [promise EXCEPT
                   ![Head(queued).driver] = firstPassPromise(Head(queued).st)]
  /\ timers' = IF Head(queued).st = "done"
               THEN timers \cup {Head(queued).driver} ELSE timers
  /\ queued' = Tail(queued)
  /\ UNCHANGED << slot, now, op, arg, pre, result, inserted, onlyInserts,
                  cleared, job, pulls, pushes, ended, oneshot >>

\* post, updateData, deleteData or get is called: its request is in flight
\* and its promise pending when the call returns
OneShot ==
  \E name \in OneShots :
    LET called == oneShot(name, NeverSettles)
    IN /\ Ready
       /\ oneshot.name = "none"
       /\ oneshot' = [name |-> name, state |-> called.state,
                      value |-> called.value]
       /\ UNCHANGED << slot, now, op, arg, pre, result, inserted,
                       onlyInserts, cleared, job, pulls, pushes, ended,
                       promise, timers, queued >>

\* the request of the one-shot call settles and the method returns
OneShotSettle ==
  \E response \in Responses :
    LET settled == oneShot(oneshot.name, response)
    IN /\ Ready /\ Drained
       /\ oneshot.state = "pending"
       /\ oneshot' = [name |-> oneshot.name, state |-> settled.state,
                      value |-> settled.value]
       /\ UNCHANGED << slot, now, op, arg, pre, result, inserted,
                       onlyInserts, cleared, job, pulls, pushes, ended,
                       promise, timers, queued >>

\* a Table Store call starts: it reads the slot
Begin ==
  \E call \in TableCalls :
    /\ Ready
    /\ call.op = "insert" => Len(_getTable(slot).rows) < MaxSyncRows
    /\ job' = [op |-> call.op, read |-> slot, item |-> call.item]
    /\ UNCHANGED << slot, now, op, arg, pre, result, inserted, onlyInserts,
                    cleared, pulls, pushes, ended, promise, timers, queued,
                    oneshot >>

\* the call writes the table it computed from what it read, and returns
Finish ==
  \E ok \in BOOLEAN :
    LET out == tableCall(job, now, ok)
    IN /\ op = "none" /\ ended = NoPass /\ job.op # "none"
       /\ oneshot.state \in {"none", "pending"}
       /\ slot' = out.slot
       /\ op' = job.op
       /\ arg' = IF job.op = "insert"
                 THEN Args(job.item, NoItem, NoItem, DefaultPage,
                           DefaultLimit, ok, NoResponse)
                 ELSE Args(NoItem, job.item, NoItem, DefaultPage,
                           DefaultLimit, ok, NoResponse)
       /\ pre' = slot
       /\ result' = Returned(out)
       /\ job' = NoJob
       /\ UNCHANGED << now, inserted, onlyInserts, cleared, pulls, pushes,
                       ended, promise, timers, queued, oneshot >>

\* the call has returned, the pass that ended or the promise that settled
\* has been noted
Done ==
  /\ \/ op # "none"
     \/ ended # NoPass
     \/ oneshot.state \notin {"none", "pending"}
  /\ op' = "none"
  /\ arg' = NoArgs
  /\ pre' = slot
  /\ result' = NoResult
  /\ ended' = NoPass
  /\ oneshot' = IF oneshot.state \in {"none", "pending"}
                THEN oneshot ELSE NoRequest
  /\ UNCHANGED << slot, now, inserted, onlyInserts, cleared, job, pulls,
                  pushes, promise, timers, queued >>

\* fetchData, the one-shot requests and the Table Store
NextPull ==
  \/ FetchData \/ PullTimer \/ PullSettle \/ Resume
  \/ OneShot \/ OneShotSettle \/ Begin \/ Finish \/ Done

SpecPull == Init /\ [][NextPull]_vars

\* syncPost, syncUpdate and the Table Store
NextPush ==
  \/ SyncCall \/ PushTimer \/ PushSettle \/ Resume
  \/ Begin \/ Finish \/ Done

SpecPush == Init /\ [][NextPush]_vars

\* ------------------------------------------------------------ claims
EmptyQuery == NoItem

\* the records of the table a slot reads as
Rows(s) == _getTable(s).rows

\* no call is under way and the clock has its last value: every table the
\* client holds at an earlier clock value it also holds then, since the
\* clock advances between calls
AtRest == op = "none" /\ now = MaxClock

\* the rows at the positions idx, in table order
RECURSIVE RowsFrom(_, _, _)
RowsFrom(rows, idx, i) ==
  IF i > Len(rows) THEN << >>
  ELSE (IF i \in idx THEN << rows[i] >> ELSE << >>) \o RowsFrom(rows, idx, i + 1)

RowsAt(rows, idx) == RowsFrom(rows, idx, 1)

\* two records read the same on every field
SameRecord(a, b) == \A f \in Fields : Get(a, f) = Get(b, f)

\* C1: after N inserts into an empty table (writes succeeding, nothing else
\* in between), select({}, 1, limit >= N) returns the N inserted records in
\* insertion order, each with a non-null id.
C1_SelectReturnsInserted ==
  (/\ op = "select" /\ onlyInserts
   /\ arg.query = EmptyQuery /\ arg.page = 1 /\ arg.limit >= Len(inserted))
  => /\ ~result.threw
     /\ Len(result.rows) = Len(inserted)
     /\ \A i \in 1..Len(inserted) :
          /\ SameRecord(result.rows[i], inserted[i])
          /\ "id" \in DOMAIN result.rows[i]
          /\ result.rows[i].id # Undefined

C1_Witness ==
  /\ op = "select" /\ onlyInserts
  /\ arg.query = EmptyQuery /\ arg.page = 1 /\ arg.limit >= Len(inserted)
  /\ Len(inserted) = 3
  /\ Len(result.rows) = 3
  /\ result.rows[1] # result.rows[2]

\* C2: no two records of a table built by insert alone share an id.
C2_UniqueIds ==
  onlyInserts =>
    \A i, j \in 1..Len(Rows(slot)) :
      i # j => Rows(slot)[i].id # Rows(slot)[j].id

\* C3: an item passed to insert with an id keeps that id, in the returned
\* record and in the stored record.
C3_KeepsGivenId ==
  (/\ op = "insert" /\ ~result.threw /\ arg.ok
   /\ "id" \in DOMAIN arg.item)
  => /\ result.rows[1].id = arg.item.id
     /\ Rows(slot)[Len(Rows(slot))].id = arg.item.id

\* every field named in the query is present in the record and equal
PresentAndEqual(r, q) == \A k \in DOMAIN q : k \in DOMAIN r /\ r[k] = q[k]

\* every field named in the query is present and equal, or is absent from the
\* record while the query gives undefined for it
EqualOrBothUndefined(r, q) ==
  \A k \in DOMAIN q :
    \/ k \in DOMAIN r /\ r[k] = q[k]
    \/ k \notin DOMAIN r /\ q[k] = Undefined

\* C4 (as claimed): select(query, 1, limit >= size) returns exactly the
\* records in which every queried field is present and equal, in table order;
\* a record lacking a queried field is never returned.
C4_PresentAndEqual ==
  (/\ op = "select" /\ IsTable(pre)
   /\ arg.page = 1 /\ arg.limit >= Len(Rows(pre)))
  => /\ ~result.threw
     /\ result.rows =
          RowsAt(Rows(pre), {i \in 1..Len(Rows(pre)) :
                               PresentAndEqual(Rows(pre)[i], arg.query)})

\* C4 (amended): select(query, 1, limit >= size) returns exactly the records
\* in which every queried field is present and equal to the query's value or
\* is absent while the query's value for it is undefined, in table order; an
\* empty query returns every record.
C4_EqualOrBothUndefined ==
  (/\ op = "select" /\ IsTable(pre)
   /\ arg.page = 1 /\ arg.limit >= Len(Rows(pre)))
  => /\ ~result.threw
     /\ result.rows =
          RowsAt(Rows(pre), {i \in 1..Len(Rows(pre)) :
                               EqualOrBothUndefined(Rows(pre)[i], arg.query)})
     /\ (arg.query = EmptyQuery => result.rows = Rows(pre))

C4_Witness ==
  /\ op = "select" /\ IsTable(pre)
  /\ arg.page = 1 /\ arg.limit >= Len(Rows(pre))
  /\ arg.query = MkRecord(Absent, NameA, Absent)
  /\ Len(Rows(pre)) = 3
  /\ Len(result.rows) = 2
  /\ Rows(pre)[2].name = NameB

\* the records 1..n, as a table of n rows
Numbered(n) == Array([i \in 1..n |-> MkRecord(i, NameA, Absent)])

\* the part of a sequence at the 0-based positions from..to that exist
Positions(rows, from, to) ==
  IF from + 1 > Min(to + 1, Len(rows)) THEN << >>
  ELSE [i \in 1..(Min(to + 1, Len(rows)) - from) |-> rows[from + i]]

RECURSIVE PagesUpTo(_, _, _, _)
\* pages 1..p of select(query, _, limit), one after the other
PagesUpTo(s, query, limit, p) ==
  IF p = 0 THEN << >>
  ELSE PagesUpTo(s, query, limit, p - 1) \o select(s, query, p, limit).rows

\* C5: for page >= 1 and limit >= 1, select returns the 0-based positions
\* (page-1)*limit .. (page-1)*limit+limit-1 of the filtered sequence that
\* exist; the pages in order make up the whole filtered sequence and every
\* page past the end is empty (15 records: page 2 of 10 is records 11..15,
\* page 3 is empty).
C5_Pagination ==
  /\ (op = "select" /\ IsTable(pre) /\ arg.page >= 1 /\ arg.limit >= 1)
     => /\ ~result.threw
        /\ result.rows =
             Positions(RowsAt(Rows(pre), {i \in 1..Len(Rows(pre)) :
                                            Matches(Rows(pre)[i], arg.query)}),
                       (arg.page - 1) * arg.limit,
                       (arg.page - 1) * arg.limit + arg.limit - 1)
  /\ (AtRest /\ IsTable(slot))
     => \A query \in Queries, limit \in 1..(MaxRows + 1) :
          LET all == RowsAt(Rows(slot), {i \in 1..Len(Rows(slot)) :
                                           Matches(Rows(slot)[i], query)})
          IN /\ PagesUpTo(slot, query, limit, MaxRows + 1) = all
             /\ \A p \in 1..(MaxRows + 2) :
                  (p - 1) * limit >= Len(all)
                    => select(slot, query, p, limit).rows = << >>
  /\ op = "none"
     => /\ select(Numbered(15), EmptyQuery, 2, 10).rows
             = [i \in 1..5 |-> MkRecord(10 + i, NameA, Absent)]
        /\ select(Numbered(15), EmptyQuery, 3, 10).rows = << >>

C5_Witness ==
  /\ op = "select" /\ IsTable(pre)
  /\ arg.page = 2 /\ arg.limit = 2 /\ arg.query = EmptyQuery
  /\ Len(Rows(pre)) = 3
  /\ result.rows = << Rows(pre)[3] >>

\* C6: update(query, updates) replaces every matching record by that record
\* with the fields of updates overriding and every other field preserved,
\* and leaves the non-matching records, the number of records and their
\* order unchanged (the storage write succeeding).
C6_UpdateFrame ==
  (op = "update" /\ IsTable(pre) /\ arg.ok)
  => /\ ~result.threw
     /\ Len(Rows(slot)) = Len(Rows(pre))
     /\ \A i \in 1..Len(Rows(pre)) :
          IF EqualOrBothUndefined(Rows(pre)[i], arg.query)
          THEN \A f \in Fields :
                 Get(Rows(slot)[i], f) =
                   IF f \in DOMAIN arg.updates THEN arg.updates[f]
                   ELSE Get(Rows(pre)[i], f)
          ELSE Rows(slot)[i] = Rows(pre)[i]

C6_Witness ==
  /\ op = "update" /\ IsTable(pre) /\ arg.ok
  /\ arg.query = MkRecord(Absent, NameA, Absent)
  /\ arg.updates = MkRecord(Absent, NameB, Absent)
  /\ Len(Rows(pre)) = 3
  /\ Rows(pre)[1].name = NameA /\ Rows(slot)[1].name = NameB
  /\ "value" \in DOMAIN Rows(slot)[1]
  /\ Rows(pre)[2].name = NameB /\ Rows(slot)[2] = Rows(pre)[2]

\* C7: the array returned by update consists of the records this call
\* updated, in their post-update state (the first 10 of them), also when
\* updates assigns a field named in the query.
C7_ReturnsUpdated ==
  (op = "update" /\ IsTable(pre) /\ arg.ok /\ ~result.threw)
  => result.rows =
       Positions(RowsAt(Rows(slot), {i \in 1..Len(Rows(pre)) :
                                       Matches(Rows(pre)[i], arg.query)}),
                 0, DefaultLimit - 1)

\* C8: delete(query) removes exactly the matching records, keeps the others
\* persisted in their order, and returns the number that matched: returned
\* count + records remaining = records before; delete({}) removes every
\* record (the storage write succeeding).
C8_DeleteRemovesMatching ==
  (op = "delete" /\ IsTable(pre) /\ arg.ok)
  => /\ ~result.threw
     /\ result.kind = "count"
     /\ Rows(slot) =
          RowsAt(Rows(pre), {i \in 1..Len(Rows(pre)) :
                               ~EqualOrBothUndefined(Rows(pre)[i], arg.query)})
     /\ result.n = Cardinality({i \in 1..Len(Rows(pre)) :
                                  EqualOrBothUndefined(Rows(pre)[i], arg.query)})
     /\ result.n + Len(Rows(slot)) = Len(Rows(pre))
     /\ (arg.query = EmptyQuery => Rows(slot) = << >>)

C8_Witness ==
  /\ op = "delete" /\ IsTable(pre) /\ arg.ok
  /\ arg.query = MkRecord(Absent, NameA, Absent)
  /\ Len(Rows(pre)) = 3
  /\ Rows(pre)[1].name = NameA /\ Rows(pre)[2].name = NameB
  /\ Rows(pre)[3].name = NameA
  /\ result.n = 2
  /\ Rows(slot) = << Rows(pre)[2] >>

\* C9: after clear() has written, every select (any query, page and limit)
\* returns an empty sequence until an insert or a pull pass writes to the
\* table, whatever the table held before.
C9_ClearedSelectsNothing ==
  cleared =>
    /\ \A query \in Queries, page \in Pages, limit \in Limits :
         /\ ~select(slot, query, page, limit).threw
         /\ select(slot, query, page, limit).rows = << >>
    /\ op = "select" => (~result.threw /\ result.rows = << >>)

C9_Witness ==
  /\ cleared /\ op = "clear" /\ arg.ok
  /\ Len(Rows(pre)) = 3
  /\ slot # pre

C9_WitnessSelect ==
  cleared /\ op = "select" /\ result.rows = << >>

\* what the last call does on an empty table
OnEmptyTable ==
  CASE op = "insert" -> insert(Array(<< >>), arg.item, now, arg.ok)
    [] op = "select" -> select(Array(<< >>), arg.query, arg.page, arg.limit)
    [] op = "update" -> update(Array(<< >>), arg.query, arg.updates, arg.ok)
    [] op = "delete" -> delete(Array(<< >>), arg.query, arg.ok)
    [] OTHER -> clear(Array(<< >>), arg.ok)

\* C10: on a slot that is missing or does not hold the JSON of an array, no
\* Table Store method throws and each behaves as on an empty table.
C10_CorruptReadsAsEmpty ==
  (/\ op \in {"insert", "select", "update", "delete", "clear"}
   /\ pre.kind # "array")
  => /\ ~result.threw
     /\ result = Returned(OnEmptyTable)
     /\ (arg.ok => Rows(slot) = OnEmptyTable.slot.rows)

\* C11: a pull pass whose GET succeeds and whose body parses leaves the
\* table's persisted content exactly equal to the parsed body: nothing that
\* was there before survives, nothing is merged (the storage write
\* succeeding).
C11_PullReplaces ==
  (/\ op = "pull" /\ arg.ok
   /\ arg.response.status = "ok" /\ arg.response.body.kind # "garbage")
  => /\ ~result.threw
     /\ JSONparse(slot) = JSONparse(arg.response.body)

C11_Witness ==
  /\ op = "pull" /\ arg.ok
  /\ arg.response = Response("ok", Array(<< MkRecord(1, NameA, Absent) >>))
  /\ Len(Rows(pre)) = 2
  /\ Rows(pre)[2].name = NameB
  /\ Rows(slot) = << MkRecord(1, NameA, Absent) >>

\* C15: a table slot that has been written holds valid JSON that decodes to
\* an array, whatever Table Store operations and pull passes ran and whatever
\* bodies the endpoint returned.
C15_WrittenSlotIsArray ==
  (op # "none" /\ slot # pre) => slot.kind = "array"

\* the records update builds in memory for the matching rows
UpdatedInMemory(rows, query, updates) ==
  RowsAt([i \in 1..Len(rows) |-> merge(rows[i], updates)],
         {i \in 1..Len(rows) : Matches(rows[i], query)})

\* C16: when the storage write fails during insert, update or delete, nothing
\* is thrown, the persisted content stays as it was, and the value returned
\* is computed from the in-memory post-mutation table: the inserted item,
\* the updated records, the number of removed records.
C16_FailedWriteReturnsInMemory ==
  (op \in {"insert", "update", "delete"} /\ ~arg.ok /\ IsTable(pre))
  => /\ ~result.threw
     /\ slot = pre
     /\ op = "insert" => result.rows = << assignId(arg.item, now) >>
     /\ op = "update" =>
          /\ Len(result.rows) =
               Len(Positions(UpdatedInMemory(Rows(pre), arg.query, arg.updates),
                             0, DefaultLimit - 1))
          /\ \A i \in 1..Len(result.rows) :
               SameRecord(result.rows[i],
                          UpdatedInMemory(Rows(pre), arg.query, arg.updates)[i])
     /\ op = "delete" =>
          result.n = Cardinality({i \in 1..Len(Rows(pre)) :
                                    Matches(Rows(pre)[i], arg.query)})

\* what select returns for a page or limit that is zero or negative, from a
\* filtered sequence all
Degraded(all, page, limit) ==
  IF limit = 0 \/ page = 0 THEN << >>
  ELSE IF limit < 0
       THEN (IF page = 1 THEN Positions(all, 0, Len(all) + limit - 1)
             ELSE << >>)
       ELSE Positions(all, Max(Len(all) + (page - 1) * limit, 0),
                      Max(Len(all) + page * limit, 0) - 1)

\* C17 (as claimed): select raises no error for any page and limit, and when
\* page or limit is non-positive the result is the empty sequence or the
\* whole filtered sequence.
C17_EmptyOrWhole ==
  (op = "select" /\ IsTable(pre))
  => /\ ~result.threw
     /\ (arg.page <= 0 \/ arg.limit <= 0)
        => \/ result.rows = << >>
           \/ result.rows =
                RowsAt(Rows(pre), {i \in 1..Len(Rows(pre)) :
                                     Matches(Rows(pre)[i], arg.query)})

\* C17 (amended): select raises no error for any page and limit; when page
\* or limit is non-positive the result is empty, except that page 1 with a
\* negative limit returns the filtered sequence without its last -limit
\* records, and a negative page with a positive limit returns the records at
\* the positions n+(page-1)*limit .. n+page*limit-1 of the n filtered
\* records (negative positions read as 0).
C17_Degraded ==
  /\ (op = "select" /\ IsTable(pre))
     => /\ ~result.threw
        /\ (arg.page <= 0 \/ arg.limit <= 0)
           => result.rows =
                Degraded(RowsAt(Rows(pre), {i \in 1..Len(Rows(pre)) :
                                              Matches(Rows(pre)[i], arg.query)}),
                         arg.page, arg.limit)
  /\ (AtRest /\ IsTable(slot))
     => \A page \in -3..3, limit \in -3..3 :
          LET out == select(slot, EmptyQuery, page, limit)
          IN /\ ~out.threw
             /\ (page <= 0 \/ limit <= 0)
                => out.rows = Degraded(Rows(slot), page, limit)

C17_Witness ==
  /\ op = "select" /\ IsTable(pre)
  /\ arg.page = 1 /\ arg.limit = -1 /\ arg.query = EmptyQuery
  /\ Len(Rows(pre)) = 3
  /\ result.rows = << Rows(pre)[1], Rows(pre)[2] >>

\* C12: a pull pass that fails (the fetch is rejected, the status is not OK,
\* or the body does not parse) leaves the table's content as it was.
C12_FailedPullKeepsTable ==
  (op = "pull" /\ (arg.response.status # "ok"
                   \/ arg.response.body.kind = "garbage"))
  => slot = pre

\* the requests a push pass has issued are those for the first records of
\* the table it read, in table order, each sent after the one before it has
\* settled
InOrder(p) ==
  /\ Len(p.sent) <= Len(p.table)
  /\ p.sent = [i \in 1..Len(p.sent) |->
                 Request(Method(p.driver), p.table[i])]
  /\ p.settled <= Len(p.sent)
  /\ Len(p.sent) <= p.settled + 1
  /\ p.st = "sending" => Len(p.sent) = p.settled + 1
  /\ p.st = "done" => (p.settled = Len(p.table) /\ Len(p.sent) = Len(p.table))

\* C13: every push pass of syncPost / syncUpdate issues one request per
\* record of the table it read when it started, in table order and one at a
\* time, and a rejected request does not keep it from issuing the remaining
\* ones: a pass that has ended has issued them all.
C13_OneRequestPerRecord ==
  /\ \A k \in 1..Len(pushes) : InOrder(pushes[k])
  /\ ended.st = "done" => (ended.driver = "fetchData" \/ InOrder(ended))

C13_Witness ==
  /\ ended.st = "done" /\ ended.driver = "syncUpdate"
  /\ ended.failed
  /\ Len(ended.table) = 2 /\ ended.table[1] # ended.table[2]
  /\ Len(ended.sent) = 2
  /\ Rows(slot) # ended.table

\* C14: no promise returned by fetchData, syncPost, syncUpdate, post,
\* updateData, deleteData or get is rejected, whatever the network and the
\* slot.
C14_NoPromiseRejects ==
  /\ \A d \in Drivers : promise[d] # "rejected"
  /\ oneshot.state # "rejected"

\* C18: a request that never completes holds up its own pass only: the timer
\* of its method is running and starts the following passes.
C18_HungPassKeepsTimer ==
  /\ \A k \in 1..Len(pulls) :
       pulls[k].st = "hung" => "fetchData" \in timers
  /\ \A k \in 1..Len(pushes) :
       pushes[k].st = "hung" => pushes[k].driver \in timers

\* C19: a Table Store call is one read-modify-write: between its read and
\* its write the slot does not change, so what it writes is computed from
\* the table as it is when the call writes, and the records of two inserts
\* are both in the table.
C19_AtomicReadModifyWrite ==
  /\ job.op # "none" => slot = job.read
  /\ (op = "insert" /\ arg.ok /\ IsTable(pre))
     => (~result.threw /\ Rows(slot) = Rows(pre) \o result.rows)
  /\ (op = "delete" /\ arg.ok /\ IsTable(pre))
     => (~result.threw /\ Rows(slot) = filter(Rows(pre), arg.query, FALSE))

C19_Witness ==
  /\ op = "insert" /\ arg.ok
  /\ Rows(pre) = << MkRecord(1, NameB, Absent) >>
  /\ Rows(slot) = << MkRecord(1, NameB, Absent), MkRecord(1, NameB, Absent) >>
  /\ Len(pulls) = 2 /\ pulls[1].st = "fetching" /\ pulls[2].st = "fetching"

\* C20: the response of a pull pass never overwrites what a pass started
\* after it has stored.
C20_OlderNeverOverwrites ==
  (ended.st = "done" /\ ended.driver = "fetchData")
  => ~(ended.wrote /\ ended.overtaken)

====
